---- MODULE Spec2Model ----
(***************************************************************************)
(* A model of the Sacramento music-scene scraper (server/scraper.py): the  *)
(* text normalizers, the detail resolver (_scrape_event_page), the source  *)
(* orchestrator (_scrape_source, _scrape_source_multi), the manual events  *)
(* loader and the aggregator (scrape_all_sources).                         *)
(*                                                                         *)
(* Encodings.                                                              *)
(*  - A title is a sequence of tokens: the characters " ", "-", "|" and    *)
(*    whole words ("Band", "Events", ...).  Two adjacent word tokens are   *)
(*    one longer word.                                                     *)
(*  - A URL is a record [path, slash, query, frag]: an opaque path number  *)
(*    (0 is the empty path), whether the path ends in "/", and whether a   *)
(*    "?..." or a "#..." part follows.  None is NullUrl.                   *)
(*  - A date is a number whose order is the order of the ISO string        *)
(*    (YYYY-MM-DD strings compare like the days they name); None is Null   *)
(*    and the empty string is Empty.                                       *)
(*  - A price is a natural number (cents are not modelled); None is Null.  *)
(*  - md5 is taken to be injective: an id is the tuple that is hashed.     *)
(***************************************************************************)
EXTENDS Integers, Sequences, FiniteSets, TLC

VARIABLES rs, pc, vi, li, links, futs, doneQ, events, venueIn, combined, seen_ids, allEvents, result,
          world, txt, cacheFile, clock, req

\* The text a pure function is applied to.
textVars == <<txt>>

\* The HTTP layer (server/app.py).
appVars == <<cacheFile, clock, req>>

vars == <<rs, pc, vi, li, links, futs, doneQ, events, venueIn, combined, seen_ids, allEvents, result,
          world, textVars, appVars>>

(* ------------------------------ bounds -------------------------------- *)

\* Ordinary ISO dates are 1..MaxDate.
MaxDate == 2

\* The entries of the manual events file.
MaxManual == 2

\* The links of one listing that are resolved: MAX_LINKS_PER_SOURCE, which is
\* 200 in the code, brought down to the size of the model's listings so that
\* a listing with more links than the cap exists.
MAX_LINKS_PER_SOURCE == 2

(* --------------------------- absent values ---------------------------- *)

\* Python's None, for number-coded fields (dates, times, prices).
Null == -1

\* The empty string "", for number-coded string fields (manual records).
Empty == -2

Max(a, b) == IF a >= b THEN a ELSE b

Min(a, b) == IF a <= b THEN a ELSE b

RECURSIVE SeqMin(_)
SeqMin(s) == IF Len(s) = 1 THEN s[1] ELSE Min(s[1], SeqMin(Tail(s)))

RECURSIVE SeqMax(_)
SeqMax(s) == IF Len(s) = 1 THEN s[1] ELSE Max(s[1], SeqMax(Tail(s)))

(* ------------------------------ titles -------------------------------- *)

Space == " "

Dash == "-"

Bar == "|"

\* str.lower(), token by token.
LowerTok(t) ==
    CASE t = "Events" -> "events"
      [] t = "Shows" -> "shows"
      [] t = "Band" -> "band"
      [] t = "Opener" -> "opener"
      [] t = "Untitled" -> "untitled"
      [] OTHER -> t

Lower(s) == [i \in DOMAIN s |-> LowerTok(s[i])]

\* GENERIC_EVENT_TITLES, as lower-case token sequences (the venue names and
\* the multi-word phrases are left out: no title of the model spells them).
GENERIC_EVENT_TITLES == { <<"events">>, <<"shows">> }

\* GENERIC_TITLE_SUBSTRINGS: one phrase, held as a single token.
GENERIC_TITLE_SUBSTRINGS == { "discover upcoming events" }

\* html.unescape, token by token: one level of entity decoding.
HtmlUnescape(s) ==
    [i \in DOMAIN s |->
        IF s[i] = "&amp;amp;" THEN "&amp;" ELSE IF s[i] = "&amp;" THEN "&" ELSE s[i]]

RECURSIVE LStrip(_, _)
LStrip(s, cs) ==
    IF s # <<>> /\ Head(s) \in cs THEN LStrip(Tail(s), cs) ELSE s

RECURSIVE RStrip(_, _)
RStrip(s, cs) ==
    IF s # <<>> /\ s[Len(s)] \in cs THEN RStrip(SubSeq(s, 1, Len(s) - 1), cs) ELSE s

\* str.strip(chars)
Strip(s, cs) == RStrip(LStrip(s, cs), cs)

\* str.strip()
StripWs(s) == Strip(s, {Space})

\* re.sub(r"\s+", " ", text)
RECURSIVE CollapseWs(_)
CollapseWs(s) ==
    IF Len(s) < 2 THEN s
    ELSE IF s[1] = Space /\ s[2] = Space THEN CollapseWs(Tail(s))
    ELSE <<s[1]>> \o CollapseWs(Tail(s))

\* re.sub(r"^\s*events?\s*-\s*", "", text, flags=re.IGNORECASE)
StripEventsPrefix(s) ==
    LET a == LStrip(s, {Space})
    IN  IF a # <<>> /\ LowerTok(Head(a)) = "events"
        THEN LET b == LStrip(Tail(a), {Space})
             IN  IF b # <<>> /\ Head(b) = Dash THEN LStrip(Tail(b), {Space}) ELSE s
        ELSE s

\* The first i with s[i..i+2] = " c ", or 0: where text.split(" c ", 1) cuts.
FindSep(s, c) ==
    LET hits == { i \in 1..(Len(s) - 2) :
                    s[i] = Space /\ s[i + 1] = c /\ s[i + 2] = Space }
    IN  IF hits = {} THEN 0 ELSE CHOOSE i \in hits : \A j \in hits : i <= j

\* _clean_event_name
clean_event_name(value) ==
    LET t0 == HtmlUnescape(StripWs(value))
        t1 == StripEventsPrefix(t0)
        t2 == Strip(CollapseWs(t1), {Space, Dash, Bar})
        i  == FindSep(t2, Bar)
        t3 == IF i > 0 THEN StripWs(SubSeq(t2, 1, i - 1)) ELSE t2
        j  == FindSep(t3, Dash)
        left  == SubSeq(t3, 1, j - 1)
        right == SubSeq(t3, j + 3, Len(t3))
    IN  IF t0 = <<>> THEN <<>>
        ELSE IF j > 0 /\ Lower(StripWs(right)) \in GENERIC_EVENT_TITLES
             THEN StripWs(left)
             ELSE t3

\* _is_generic_title
is_generic_title(value) ==
    LET cleaned == StripWs(Lower(clean_event_name(value)))
    IN  \/ cleaned = <<>>
        \/ cleaned \in GENERIC_EVENT_TITLES
        \/ \E i \in DOMAIN cleaned : cleaned[i] \in GENERIC_TITLE_SUBSTRINGS

(* ------------------------------- URLs --------------------------------- *)

NullUrl == [path |-> Null, slash |-> FALSE, query |-> FALSE, frag |-> FALSE]

\* The empty string "" as a URL.
EmptyUrl == [path |-> 0, slash |-> FALSE, query |-> FALSE, frag |-> FALSE]

Url(p, s, q, f) == [path |-> p, slash |-> s, query |-> q, frag |-> f]

\* Python truthiness of an optional string.
FalsyUrl(u) == u = NullUrl \/ u = EmptyUrl

\* _canonicalize_url: value.split("#", 1)[0].split("?", 1)[0].rstrip("/")
canonicalize_url(value) ==
    IF FalsyUrl(value) THEN value
    ELSE [path |-> value.path, slash |-> FALSE, query |-> FALSE, frag |-> FALSE]

\* The slug _title_from_event_url reads off a path, hyphens already turned
\* into spaces and words capitalized: path 1 names a band, path 2 is a
\* listing-like slug ("shows"), path 3 names another band.
SlugWords(path) ==
    CASE path = 1 -> <<"Band">>
      [] path = 2 -> <<"Shows">>
      [] path = 3 -> <<"Opener">>
      [] OTHER -> <<>>

\* _title_from_event_url; <<>> stands for both None and "".
title_from_event_url(url) ==
    IF SlugWords(url.path) = <<>> THEN <<>> ELSE clean_event_name(SlugWords(url.path))

(* -------------------------------- ids --------------------------------- *)

\* _build_id: md5 of f"{source}|{url or ''}|{name}|{date or ''}"
build_id(source, url, name, date) ==
    << source,
       IF FalsyUrl(url) THEN EmptyUrl ELSE url,
       name,
       IF date \in {Null, Empty} THEN Empty ELSE date >>

(* --------------------------- dates and times -------------------------- *)

\* The sort key's stand-in for a missing date, "9999-12-31" (itself the last
\* ISO date): the rank just above the ordinary dates.
Sentinel == MaxDate + 1

\* A manual localDate that is no ISO date and sorts above every digit string
\* ("TBA", "Friday").
FreeFormDate == Sentinel + 1

\* A time "HH:MM" is the number HH * 100 + MM.
Hhmm(h, m) == h * 100 + m

NoStartDate == [kind |-> "none", date |-> Null, time |-> Null]

\* _parse_iso_date.  kind "none" is a missing startDate, "garbage" a string no
\* format parses, "date" a bare YYYY-MM-DD (datetime.fromisoformat reads it
\* as midnight), "datetime" a date with a time of day.
parse_iso_date(sd) ==
    CASE sd.kind = "date" -> [localDate |-> sd.date, localTime |-> Hhmm(0, 0)]
      [] sd.kind = "datetime" -> [localDate |-> sd.date, localTime |-> sd.time]
      [] OTHER -> [localDate |-> Null, localTime |-> Null]

NoTextTime == [h |-> Null, m |-> 0, mer |-> "am"]

\* The time part of _extract_datetime_from_text: tm is the match of
\* (\d{1,2})(?::(\d{2}))?\s*([ap]m), or NoTextTime.
TimeFromText(tm) ==
    IF tm.h = Null THEN Null
    ELSE LET h1 == IF tm.mer = "pm" /\ tm.h # 12 THEN tm.h + 12 ELSE tm.h
             h2 == IF tm.mer = "am" /\ h1 = 12 THEN 0 ELSE h1
         IN  Hhmm(h2, tm.m)

\* _extract_datetime_from_text over the page text: the date the text spells
\* (page.textDate, Null when it spells none) and the converted time.
extract_datetime_from_text(page) ==
    [localDate |-> page.textDate, localTime |-> TimeFromText(page.textTime)]

(* ------------------------------- prices ------------------------------- *)

NoPrice == [kind |-> "none", nums |-> <<>>]

NumPrice(n) == [kind |-> "num", nums |-> <<n>>]

StrPrice(ns) == [kind |-> "str", nums |-> ns]

\* _parse_price: a number passes through, a string gives the min and max of
\* the numbers it holds (v.nums), anything else gives None.
parse_price(v) ==
    IF v.kind \in {"num", "str"} /\ v.nums # <<>>
    THEN [priceMin |-> SeqMin(v.nums), priceMax |-> SeqMax(v.nums)]
    ELSE [priceMin |-> Null, priceMax |-> Null]

RECURSIVE Flatten(_)
Flatten(ss) == IF ss = <<>> THEN <<>> ELSE Head(ss) \o Flatten(Tail(ss))

InOfferRange(n) == 0 < n /\ n <= 1000

\* The numbers _extract_prices_from_jsonld reads off one offer, key by key.
OfferNums(o) == o.price.nums \o o.lowPrice.nums \o o.highPrice.nums

\* _extract_prices_from_jsonld: offers is the list of the page's offers.
extract_prices_from_jsonld(offers) ==
    SelectSeq(Flatten([i \in DOMAIN offers |-> OfferNums(offers[i])]), InOfferRange)

IsPositive(n) == n > 0

\* _extract_prices_from_text: dollars is the list of "$n" tokens of the text.
extract_prices_from_text(dollars) == SelectSeq(dollars, IsPositive)

\* _extract_ticket_prices_from_text: page.dollars holds the "$n" tokens that
\* lie in a window around a ticket keyword.
extract_ticket_prices_from_text(page) == extract_prices_from_text(page.dollars)

\* _looks_free: page.looksFree says whether the text holds one of the five
\* free-admission phrases.
looks_free(page) == page.looksFree

(* ---------------------------- ticket links ---------------------------- *)

\* The score _find_ticket_links gives an anchor: text is the first phrase the
\* anchor text contains, host whether the href names a ticket host.
AnchorScore(a) ==
    ( CASE a.text = "buy tickets" -> 6
        [] a.text = "get tickets" -> 5
        [] a.text = "tickets" -> 4
        [] a.text = "buy" -> 3
        [] OTHER -> 0 )
    + (IF a.host THEN 4 ELSE 0)

\* Keep the first occurrence of each element.
RECURSIVE DedupFirst(_)
DedupFirst(s) ==
    IF s = <<>> THEN <<>>
    ELSE LET init == DedupFirst(SubSeq(s, 1, Len(s) - 1))
             last == s[Len(s)]
         IN  IF \E i \in DOMAIN init : init[i] = last THEN init ELSE Append(init, last)

\* The hrefs of score k, k-1, ..., 1 in that order: a stable descending sort.
RECURSIVE RankFrom(_, _)
RankFrom(as, k) ==
    IF k = 0 THEN <<>>
    ELSE LET HasScore(a) == AnchorScore(a) = k
             at == SelectSeq(as, HasScore)
         IN  [i \in DOMAIN at |-> at[i].href] \o RankFrom(as, k - 1)

\* Keep the first anchor of each href.
RECURSIVE FirstPerHref(_)
FirstPerHref(as) ==
    IF as = <<>> THEN <<>>
    ELSE LET init == FirstPerHref(SubSeq(as, 1, Len(as) - 1))
             last == as[Len(as)]
         IN  IF \E i \in DOMAIN init : init[i].href = last.href THEN init
             ELSE Append(init, last)

\* _find_ticket_links
find_ticket_links(anchors) == RankFrom(FirstPerHref(anchors), 10)

\* Lines 767-770 (and 792-795): ranked anchors, then the ticket-host URLs
\* found in the raw markup, first occurrences kept.
TicketLinksOf(p) == DedupFirst(find_ticket_links(p.anchors) \o p.rawLinks)

(* ------------------------- the detail resolver ------------------------ *)

\* The placeholder held before an event is built.
NoEvent ==
    [ id |-> <<>>, name |-> <<>>, url |-> NullUrl, localDate |-> Null,
      localTime |-> Null, dateTBA |-> TRUE, timeTBA |-> TRUE,
      priceMin |-> Null, priceMax |-> Null, source |-> "" ]

\* _extract_best_title: the first candidate (og:title, twitter:title, h1,
\* title) whose cleaned form is neither empty nor generic; <<>> for None.
RECURSIVE extract_best_title(_)
extract_best_title(candidates) ==
    IF candidates = <<>> THEN <<>>
    ELSE LET cleaned == clean_event_name(Head(candidates))
         IN  IF cleaned # <<>> /\ ~is_generic_title(cleaned) THEN cleaned
             ELSE extract_best_title(Tail(candidates))

\* _normalize_event, for the fields the model keeps (image, venue, genre,
\* status and currency are left out).
normalize_event(source, page, fallback_url) ==
    LET ld == page.ld
        name == clean_event_name(IF ld.name = <<>> THEN <<"Untitled">> ELSE ld.name)
        url == canonicalize_url(IF FalsyUrl(ld.url) THEN fallback_url ELSE ld.url)
        date_parts == parse_iso_date(ld.startDate)
        price_info == parse_price(IF page.offers = <<>> THEN NoPrice
                                 ELSE page.offers[1].price)
    IN  [ id |-> build_id(source, url, name, date_parts.localDate),
          name |-> name,
          url |-> url,
          localDate |-> date_parts.localDate,
          localTime |-> date_parts.localTime,
          dateTBA |-> date_parts.localDate = Null,
          timeTBA |-> date_parts.localTime = Null,
          priceMin |-> price_info.priceMin,
          priceMax |-> price_info.priceMax,
          source |-> source ]

\* Lines 691-720: the event built from the page text when the page holds no
\* structured event.
FreeTextEvent(source, page, url, title) ==
    LET parsed_datetime == extract_datetime_from_text(page)
    IN  [ id |-> build_id(source, canonicalize_url(url), title, parsed_datetime.localDate),
          name |-> title,
          url |-> canonicalize_url(url),
          localDate |-> parsed_datetime.localDate,
          localTime |-> parsed_datetime.localTime,
          dateTBA |-> parsed_datetime.localDate = Null,
          timeTBA |-> parsed_datetime.localTime = Null,
          priceMin |-> Null,
          priceMax |-> Null,
          source |-> source ]

\* The resolver on entry: one call of _scrape_event_page(url, source), page
\* being what the network serves at url.  fetched logs the URLs given to
\* _fetch and depth how many links each lies from the detail page.
InitRs(url, source, page) ==
    [ pc |-> "fetch", url |-> url, source |-> source, page |-> page,
      event |-> NoEvent, needsPrice |-> FALSE,
      tlinks |-> <<>>, ti |-> 0, nested |-> <<>>, ni |-> 0,
      fetched |-> <<>>, depth |-> <<>>, out |-> "running" ]

\* The resolver between calls.
IdleRs == [InitRs(NullUrl, "", [html |-> FALSE]) EXCEPT !.pc = "idle"]

Return(st, how) == [st EXCEPT !.pc = "done", !.out = how]

\* Lines 681-683
StepFetch(st) ==
    LET got == [st EXCEPT !.fetched = Append(@, st.url), !.depth = Append(@, 0)]
    IN  IF ~st.page.html THEN Return(got, "none") ELSE [got EXCEPT !.pc = "build"]

\* Lines 685-720
StepBuild(st) ==
    IF st.page.ld.present
    THEN [st EXCEPT !.event = normalize_event(st.source, st.page, st.url),
                    !.pc = "rescue"]
    ELSE LET title == extract_best_title(st.page.titles)
         IN  IF title = <<>> THEN Return(st, "none")
             ELSE [st EXCEPT !.event = FreeTextEvent(st.source, st.page, st.url, title),
                             !.pc = "rescue"]

\* Lines 722-727
StepRescue(st) ==
    IF is_generic_title(st.event.name)
    THEN LET derived == title_from_event_url(st.url)
         IN  IF derived = <<>> \/ is_generic_title(derived) THEN Return(st, "none")
             ELSE [st EXCEPT !.event.name = derived,
                             !.event.id = build_id(st.source, st.event.url, derived,
                                                  st.event.localDate),
                             !.pc = "image"]
    ELSE [st EXCEPT !.pc = "image"]

\* Lines 731-732: the image itself is not modelled; page.imgRaises says that
\* the event has no image yet and an <img> of the page declares a width that
\* int() rejects (line 422), which raises ValueError out of the resolver.
StepImage(st) ==
    IF st.page.imgRaises THEN Return(st, "raised") ELSE [st EXCEPT !.pc = "datetime"]

\* Lines 734-741
StepDateTime(st) ==
    LET e == st.event
        parsed_datetime == extract_datetime_from_text(st.page)
        noDate == e.localDate = Null
        noTime == e.localTime = Null
    IN  [st EXCEPT
           !.event.localDate = IF noDate THEN parsed_datetime.localDate ELSE @,
           !.event.dateTBA = IF noDate THEN parsed_datetime.localDate = Null ELSE @,
           !.event.localTime = IF noTime THEN parsed_datetime.localTime ELSE @,
           !.event.timeTBA = IF noTime THEN parsed_datetime.localTime = Null ELSE @,
           !.pc = "price_jsonld"]

\* Lines 785-789 (and 751-755, 760-764, 807-811)
SetPrice(st, prices) ==
    [st EXCEPT !.event.priceMin = SeqMin(prices),
               !.event.priceMax = SeqMin(prices),
               !.needsPrice = FALSE]

\* Lines 743-755
StepPriceJsonld(st) ==
    LET needs == st.event.priceMin \in {Null, 0} /\ st.event.priceMax \in {Null, 0}
        jsonld_prices == extract_prices_from_jsonld(st.page.offers)
    IN  IF needs /\ jsonld_prices # <<>>
        THEN [SetPrice(st, jsonld_prices) EXCEPT !.pc = "price_text"]
        ELSE [st EXCEPT !.needsPrice = needs, !.pc = "price_text"]

\* Lines 757-764
StepPriceText(st) ==
    LET page_prices == extract_ticket_prices_from_text(st.page)
    IN  IF st.needsPrice /\ page_prices # <<>>
        THEN [SetPrice(st, page_prices) EXCEPT !.pc = "ticket_links"]
        ELSE [st EXCEPT !.pc = "ticket_links"]

\* urljoin(base, href) for an absolute href, which every ticket link of the
\* model is: the href itself.
UrlJoin(base, href) == href

\* Lines 766-772
StepTicketLinks(st) ==
    IF ~st.needsPrice THEN [st EXCEPT !.pc = "zero"]
    ELSE LET ticket_links == TicketLinksOf(st.page)
         IN  [st EXCEPT !.tlinks = ticket_links,
                        !.event.url = IF ticket_links # <<>>
                                      THEN UrlJoin(st.url, ticket_links[1]) ELSE @,
                        !.ti = 1,
                        !.pc = "hop1"]

\* What _fetch serves at a ticket link: the page's web maps the link's path to
\* its content.
Served(st, href) == st.page.web[href.path]

\* Lines 781-783 (and 803-805): the prices of a fetched ticket page.  Its
\* ticket-keyword windows hold some of the same "$n" tokens again, which
\* leaves the minimum as it is.
TicketPagePrices(tp) ==
    extract_prices_from_jsonld(tp.offers) \o extract_prices_from_text(tp.dollars)

\* ticket_links[:5]
MaxFirstHop == 5

\* nested_links[:3]
MaxNested == 3

\* Lines 773-795 as they would read over ticket_links, without the [:5].
StepHop1Uncapped(st) ==
    IF st.ti > Len(st.tlinks) THEN [st EXCEPT !.pc = "zero"]
    ELSE LET ticket_url == UrlJoin(st.url, st.tlinks[st.ti])
             tp == Served(st, ticket_url)
             got == [st EXCEPT !.fetched = Append(@, ticket_url), !.depth = Append(@, 1)]
         IN  IF ~tp.html THEN [got EXCEPT !.ti = @ + 1]
             ELSE IF TicketPagePrices(tp) # <<>>
                  THEN [SetPrice(got, TicketPagePrices(tp)) EXCEPT !.pc = "zero"]
                  ELSE [got EXCEPT !.nested = TicketLinksOf(tp), !.ni = 1,
                                   !.pc = "hop2"]

\* Lines 773-795: one turn of the loop over ticket_links[:5], up to the
\* nested loop.
StepHop1(st) ==
    IF st.ti > Min(Len(st.tlinks), MaxFirstHop) THEN [st EXCEPT !.pc = "zero"]
    ELSE LET ticket_url == UrlJoin(st.url, st.tlinks[st.ti])
             tp == Served(st, ticket_url)
             got == [st EXCEPT !.fetched = Append(@, ticket_url), !.depth = Append(@, 1)]
         IN  IF ~tp.html THEN [got EXCEPT !.ti = @ + 1]
             ELSE IF TicketPagePrices(tp) # <<>>
                  THEN [SetPrice(got, TicketPagePrices(tp)) EXCEPT !.pc = "zero"]
                  ELSE [got EXCEPT !.nested = TicketLinksOf(tp), !.ni = 1,
                                   !.pc = "hop2"]

\* Lines 796-814 without the two breaks (lines 812-814): the loops go on
\* after a nested page gave a price.
StepHop2NoBreak(st) ==
    IF st.ni > Min(Len(st.nested), MaxNested)
    THEN [st EXCEPT !.ti = @ + 1, !.pc = "hop1"]
    ELSE LET nested_url == UrlJoin(st.tlinks[st.ti], st.nested[st.ni])
             np == Served(st, nested_url)
             got == [st EXCEPT !.fetched = Append(@, nested_url), !.depth = Append(@, 2)]
         IN  IF ~np.html THEN [got EXCEPT !.ni = @ + 1]
             ELSE IF TicketPagePrices(np) # <<>>
                  THEN [SetPrice(got, TicketPagePrices(np)) EXCEPT !.ni = @ + 1]
                  ELSE [got EXCEPT !.ni = @ + 1]

\* Lines 796-814: one turn of the loop over nested_links[:3].
StepHop2(st) ==
    IF st.ni > Min(Len(st.nested), MaxNested)
    THEN [st EXCEPT !.ti = @ + 1, !.pc = "hop1"]
    ELSE LET nested_url == UrlJoin(st.tlinks[st.ti], st.nested[st.ni])
             np == Served(st, nested_url)
             got == [st EXCEPT !.fetched = Append(@, nested_url), !.depth = Append(@, 2)]
         IN  IF ~np.html THEN [got EXCEPT !.ni = @ + 1]
             ELSE IF TicketPagePrices(np) # <<>>
                  THEN [SetPrice(got, TicketPagePrices(np)) EXCEPT !.pc = "zero"]
                  ELSE [got EXCEPT !.ni = @ + 1]

\* Lines 816-820 without the zero-price correction.
StepZeroKeeps(st) == Return(st, "event")

\* Lines 816-820
StepZero(st) ==
    LET e == st.event
    IN  IF e.priceMin = 0 /\ e.priceMax = 0 /\ ~looks_free(st.page)
        THEN Return([st EXCEPT !.event.priceMin = Null, !.event.priceMax = Null],
                    "event")
        ELSE Return(st, "event")

\* One step of _scrape_event_page.
Step(st) ==
    CASE st.pc = "fetch" -> StepFetch(st)
      [] st.pc = "build" -> StepBuild(st)
      [] st.pc = "rescue" -> StepRescue(st)
      [] st.pc = "image" -> StepImage(st)
      [] st.pc = "datetime" -> StepDateTime(st)
      [] st.pc = "price_jsonld" -> StepPriceJsonld(st)
      [] st.pc = "price_text" -> StepPriceText(st)
      [] st.pc = "ticket_links" -> StepTicketLinks(st)
      [] st.pc = "hop1" -> StepHop1(st)
      [] st.pc = "hop2" -> StepHop2(st)
      [] st.pc = "zero" -> StepZero(st)
      [] OTHER -> st

RECURSIVE RunResolver(_)
RunResolver(st) == IF st.pc = "done" THEN st ELSE RunResolver(Step(st))

\* _scrape_event_page(url, source), run to its return, page being served at
\* url: .out is "event", "none" (None is returned) or "raised".
scrape_event_page(url, source, page) == RunResolver(InitRs(url, source, page))

(* ------------------------- the pages of the model --------------------- *)

NoOffer == [price |-> NoPrice, lowPrice |-> NoPrice, highPrice |-> NoPrice]

Offer(p) == [NoOffer EXCEPT !.price = p]

\* What _fetch serves at a ticket link.
TicketPage(offers, dollars, anchors, rawLinks) ==
    [ html |-> TRUE, offers |-> offers, dollars |-> dollars,
      anchors |-> anchors, rawLinks |-> rawLinks ]

\* A ticket link _fetch fails on (None).
DeadTicketPage ==
    [ html |-> FALSE, offers |-> <<>>, dollars |-> <<>>,
      anchors |-> <<>>, rawLinks |-> <<>> ]

Anchor(href, text, host) == [href |-> href, text |-> text, host |-> host]

\* Ticket pages live at paths 11..16, the pages they link to at 21..24.
TicketPaths == (11..16) \cup (21..24)

T(path) == Url(path, FALSE, FALSE, FALSE)

\* A ticket link with a query string, as ticket hosts hand them out.
Tq(path) == Url(path, FALSE, TRUE, FALSE)

\* The ticket links of a detail page and what the network serves behind them.
NoTickets ==
    [ anchors |-> <<>>, rawLinks |-> <<>>,
      web |-> [t \in TicketPaths |-> DeadTicketPage] ]

\* One "Buy Tickets" link to a ticket host, whose page shows "$0" and "$25".
OneTicket ==
    [ anchors |-> << Anchor(Tq(11), "buy tickets", TRUE) >>,
      rawLinks |-> <<>>,
      web |-> [t \in TicketPaths |->
                 IF t = 11 THEN TicketPage(<<>>, <<0, 25>>, <<>>, <<>>)
                 ELSE DeadTicketPage] ]

\* A low-ranked link first in the page, the best one second and again in the
\* raw markup; the best page has no price but links on to a page that asks
\* "$2500", after a link that cannot be fetched.
NestedTickets ==
    [ anchors |-> << Anchor(T(12), "tickets", FALSE),
                     Anchor(Tq(11), "buy tickets", TRUE),
                     Anchor(T(12), "buy tickets", TRUE) >>,
      rawLinks |-> << Tq(11), T(13) >>,
      web |-> [t \in TicketPaths |->
                 CASE t = 11 -> TicketPage(<<>>, <<0>>,
                                           << Anchor(T(21), "tickets", FALSE) >>,
                                           << T(22) >>)
                   [] t = 22 -> TicketPage(<<>>, <<2500>>, <<>>, <<>>)
                   [] t = 13 -> TicketPage(<<Offer(NumPrice(30))>>, <<>>, <<>>, <<>>)
                   [] OTHER -> DeadTicketPage] ]

\* Six ticket links, each to a page without a price that links on to four
\* more pages without a price.
ManyTickets ==
    [ anchors |-> [i \in 1..6 |-> Anchor(T(10 + i), "get tickets", FALSE)],
      rawLinks |-> <<>>,
      web |-> [t \in TicketPaths |->
                 IF t <= 16
                 THEN TicketPage(<<>>, <<>>,
                                 [i \in 1..4 |-> Anchor(T(20 + i), "buy", FALSE)], <<>>)
                 ELSE TicketPage(<<>>, <<>>, <<>>, <<>>)] ]

TicketWorlds == { NoTickets, OneTicket, NestedTickets, ManyTickets }

\* A structured event of a page (the best candidate of
\* _extract_event_from_jsonld), or none.
NoLd == [present |-> FALSE, name |-> <<>>, url |-> NullUrl, startDate |-> NoStartDate]

Ld(name, url, sd) == [present |-> TRUE, name |-> name, url |-> url, startDate |-> sd]

DateOnly(d) == [kind |-> "date", date |-> d, time |-> Null]

DateTime(d, t) == [kind |-> "datetime", date |-> d, time |-> t]

Garbage == [kind |-> "garbage", date |-> Null, time |-> Null]

LdSet ==
    { Ld(n, u, sd) : n \in { <<"Band">>, <<"Shows">> },
                     u \in { NullUrl, Url(3, TRUE, TRUE, TRUE) },
                     sd \in { NoStartDate, DateOnly(1), DateTime(MaxDate, Hhmm(20, 0)) } }
    \cup { Ld(<<>>, NullUrl, Garbage) }

\* The title candidates of a page without a structured event.
TitleSets ==
    { <<>>,
      << <<"Shows">>, <<"Events", Space, Dash, Space, "Opener", Space, Bar, Space, "Shows">> >>,
      << <<"Band", Space, Dash, Space, "Events">> >> }

\* What the page text says: a date, a time, free-admission language.
TextSet ==
    { [textDate |-> d[1], textTime |-> d[2], looksFree |-> f] :
        d \in { <<Null, NoTextTime>>,
                <<MaxDate, [h |-> 7, m |-> 30, mer |-> "pm"]>>,
                <<Null, [h |-> 12, m |-> 0, mer |-> "am"]>> },
        f \in BOOLEAN }

\* The offers of the page's structured data.
OfferSets ==
    { <<>>,
      << Offer(NumPrice(0)) >>,
      << Offer(NumPrice(1500)) >>,
      << [NoOffer EXCEPT !.price = StrPrice(<<10, 15>>), !.lowPrice = NumPrice(5)] >>,
      << Offer(StrPrice(<<>>)), Offer(NumPrice(20)) >> }

\* The "$n" tokens near a ticket keyword in the page text.
DollarSets == { <<>>, <<0, 12>>, <<2500>> }

MakePage(ld, titles, text, offers, dollars, tw, imgRaises) ==
    [ html |-> TRUE, ld |-> ld, titles |-> titles,
      textDate |-> text.textDate, textTime |-> text.textTime,
      looksFree |-> text.looksFree,
      offers |-> offers, dollars |-> dollars,
      anchors |-> tw.anchors, rawLinks |-> tw.rawLinks, web |-> tw.web,
      imgRaises |-> imgRaises ]

PlainText == [textDate |-> Null, textTime |-> NoTextTime, looksFree |-> FALSE]

\* A URL _fetch fails on.
DeadPage == [MakePage(NoLd, <<>>, PlainText, <<>>, <<>>, NoTickets, FALSE) EXCEPT !.html = FALSE]

\* A page whose <img width="100%"> makes the image backfill raise.
RaisingPage ==
    MakePage(Ld(<<"Band">>, NullUrl, NoStartDate), <<>>, PlainText, <<>>, <<>>, NoTickets, TRUE)

\* Every detail page of the model.
Pages ==
    { MakePage(ld, <<>>, tx, o, d, tw, FALSE) :
        ld \in LdSet, tx \in TextSet, o \in OfferSets, d \in DollarSets, tw \in TicketWorlds }
    \cup
    { MakePage(NoLd, ts, tx, o, d, tw, FALSE) :
        ts \in TitleSets, tx \in TextSet, o \in { <<>>, << Offer(NumPrice(20)) >> },
        d \in DollarSets, tw \in TicketWorlds }
    \cup { DeadPage, RaisingPage }

\* The detail links of the model: one with a query string left on it by
\* _discover_event_links and a band in its slug, one with a listing-like slug.
DetailUrls == { Url(1, FALSE, TRUE, FALSE), Url(2, FALSE, FALSE, FALSE) }

(* ------------------- the parts a specification leaves idle ------------ *)

\* No fixed network: every fetch is served whatever the network holds then.
NoWorld == [pages |-> <<>>, found |-> <<>>, malformed |-> {}, manual |-> [kind |-> "missing", items |-> <<>>]]

\* No text under a pure function.
NoText == [fn |-> "none", input |-> <<>>, out |-> <<>>, again |-> <<>>, pc |-> "off"]

\* cache.json does not exist.
NoCacheFile == [kind |-> "missing", fetched_at |-> 0, events |-> <<>>]

\* The "error" of a response: None, or str(exc).
NoError == [null |-> TRUE, text |-> ""]

ErrorOf(text) == [null |-> FALSE, text |-> text]

\* No request is being handled.
IdleReq ==
    [ pc |-> "idle", refresh |-> 0, before |-> NoCacheFile, cache |-> NoCacheFile,
      attempted |-> FALSE, raised |-> FALSE, scraped |-> <<>>,
      response |-> [events |-> <<>>, error |-> NoError] ]

(* --------------------- one resolution, step by step ------------------- *)

\* Everything but the HTTP layer.
aggVarsOfApp == <<rs, pc, vi, li, links, futs, doneQ, events, venueIn, combined, seen_ids, allEvents, result,
                 world, textVars>>

aggVars == <<pc, vi, li, links, futs, doneQ, events, venueIn, combined, seen_ids, allEvents, result,
            world, textVars, appVars>>

InitResolver ==
    /\ rs \in { InitRs(u, "harlows", p) : u \in DetailUrls, p \in Pages }
    /\ pc = "off"
    /\ vi = 0
    /\ li = 0
    /\ links = <<>>
    /\ futs = <<>>
    /\ doneQ = <<>>
    /\ events = <<>>
    /\ venueIn = <<>>
    /\ combined = <<>>
    /\ seen_ids = {}
    /\ allEvents = <<>>
    /\ result = <<>>
    /\ world = NoWorld
    /\ txt = NoText
    /\ cacheFile = NoCacheFile
    /\ clock = 0
    /\ req = IdleReq

\* _fetch(url) and the check of its result
FetchPage ==
    /\ rs.pc = "fetch"
    /\ rs' = StepFetch(rs)
    /\ UNCHANGED aggVars

\* the event is built from structured data or from the page text
BuildEvent ==
    /\ rs.pc = "build"
    /\ rs' = StepBuild(rs)
    /\ UNCHANGED aggVars

\* generic-title rescue
RescueTitle ==
    /\ rs.pc = "rescue"
    /\ rs' = StepRescue(rs)
    /\ UNCHANGED aggVars

\* image backfill
BackfillImage ==
    /\ rs.pc = "image"
    /\ rs' = StepImage(rs)
    /\ UNCHANGED aggVars

\* date/time backfill
BackfillDateTime ==
    /\ rs.pc = "datetime"
    /\ rs' = StepDateTime(rs)
    /\ UNCHANGED aggVars

\* price tier (a)
PriceFromJsonld ==
    /\ rs.pc = "price_jsonld"
    /\ rs' = StepPriceJsonld(rs)
    /\ UNCHANGED aggVars

\* price tier (b)
PriceFromText ==
    /\ rs.pc = "price_text"
    /\ rs' = StepPriceText(rs)
    /\ UNCHANGED aggVars

\* price tier (c): the ticket links are ranked
CollectTicketLinks ==
    /\ rs.pc = "ticket_links"
    /\ rs' = StepTicketLinks(rs)
    /\ UNCHANGED aggVars

\* price tier (c): a first-hop ticket page
FetchTicketPage ==
    /\ rs.pc = "hop1"
    /\ rs' = StepHop1(rs)
    /\ UNCHANGED aggVars

\* price tier (c): a nested ticket page
FetchNestedPage ==
    /\ rs.pc = "hop2"
    /\ rs' = StepHop2(rs)
    /\ UNCHANGED aggVars

\* zero-price correction and return
ZeroCorrect ==
    /\ rs.pc = "zero"
    /\ rs' = StepZero(rs)
    /\ UNCHANGED aggVars

NextResolver ==
    \/ FetchPage
    \/ BuildEvent
    \/ RescueTitle
    \/ BackfillImage
    \/ BackfillDateTime
    \/ PriceFromJsonld
    \/ PriceFromText
    \/ CollectTicketLinks
    \/ FetchTicketPage
    \/ FetchNestedPage
    \/ ZeroCorrect

SpecResolver == InitResolver /\ [][NextResolver]_vars

(* ------------------------- the manual events -------------------------- *)

\* One entry of manual_events.json.  isDict is FALSE for an entry that is no
\* JSON object, nameIsStr FALSE for a name that is a number; a missing key
\* is <<>>, "", NullUrl or Null.
ManualItem(name, source, url, localDate, localTime, id, priceMin, priceMax) ==
    [ isDict |-> TRUE, nameIsStr |-> TRUE, name |-> name, source |-> source,
      url |-> url, localDate |-> localDate, localTime |-> localTime, id |-> id,
      priceMin |-> priceMin, priceMax |-> priceMax ]

\* An id the operator wrote into the file, which no md5 digest equals.
CustomId == << "custom-id" >>

\* The event lines 169-192 build from one usable entry.
ManualEvent(item) ==
    LET name == clean_event_name(item.name)
        source == IF item.source = "" THEN "manual" ELSE item.source
        url == canonicalize_url(item.url)
        local_date == item.localDate
    IN  [ id |-> IF item.id = <<>> THEN build_id(source, url, name, local_date)
                 ELSE item.id,
          name |-> name,
          url |-> url,
          localDate |-> local_date,
          localTime |-> item.localTime,
          dateTBA |-> local_date \in {Null, Empty},
          timeTBA |-> item.localTime \in {Null, Empty},
          priceMin |-> item.priceMin,
          priceMax |-> item.priceMax,
          source |-> source ]

\* Line 163-167: the entries that become events.
Usable(item) == item.isDict /\ clean_event_name(item.name) # <<>>

\* _load_manual_events.  file.kind is "missing", "garbage" (not JSON),
\* "notlist" or "list"; .raised says that the call raised: a name that is a
\* number has no strip() (line 120).
load_manual_events(file) ==
    IF file.kind # "list" THEN [raised |-> FALSE, events |-> <<>>]
    ELSE IF \E i \in DOMAIN file.items :
                file.items[i].isDict /\ ~file.items[i].nameIsStr
         THEN [raised |-> TRUE, events |-> <<>>]
         ELSE LET kept == SelectSeq(file.items, Usable)
              IN  [raised |-> FALSE, events |-> [i \in DOMAIN kept |-> ManualEvent(kept[i])]]

(* ---------------------------- the aggregator -------------------------- *)

\* Lines 983-987: the key scrape_all_sources deduplicates by.
DedupKey(event) ==
    LET canonical_url == canonicalize_url(IF FalsyUrl(event.url) THEN EmptyUrl
                                         ELSE event.url)
    IN  IF ~FalsyUrl(canonical_url)
        THEN [source |-> event.source, by |-> "url", url |-> canonical_url, id |-> <<>>]
        ELSE [source |-> event.source, by |-> "id", url |-> NullUrl, id |-> event.id]

\* Lines 981-988 as they would read with "if key not in unique" before the
\* assignment: the first event of a key is kept.
UniqueByKeyFirstWins(es) ==
    LET keys == DedupFirst([i \in DOMAIN es |-> DedupKey(es[i])])
        FirstAt(k) == CHOOSE i \in DOMAIN es :
                        /\ DedupKey(es[i]) = k
                        /\ \A j \in DOMAIN es : DedupKey(es[j]) = k => i <= j
    IN  [n \in DOMAIN keys |-> es[FirstAt(keys[n])]]

\* Lines 981-988: a dict keeps a key at the place of its first insertion and
\* the value of its last.
UniqueByKey(es) ==
    LET keys == DedupFirst([i \in DOMAIN es |-> DedupKey(es[i])])
        LastAt(k) == CHOOSE i \in DOMAIN es :
                        /\ DedupKey(es[i]) = k
                        /\ \A j \in DOMAIN es : DedupKey(es[j]) = k => j <= i
    IN  [n \in DOMAIN keys |-> es[LastAt(keys[n])]]

\* Line 989: e.get("localDate") or "9999-12-31"
DateKey(e) == IF e.localDate \in {Null, Empty} THEN Sentinel ELSE e.localDate

\* sorted(..., key=DateKey), which is stable: the events of key k, k+1, ...
RECURSIVE SortedFrom(_, _)
SortedFrom(es, k) ==
    IF k > FreeFormDate THEN <<>>
    ELSE LET HasKey(e) == DateKey(e) = k
         IN  SelectSeq(es, HasKey) \o SortedFrom(es, k + 1)

SortedByDate(es) == SortedFrom(es, 1)

\* Lines 842-850 as they would read with a dict keyed by id: a later event
\* replaces the one already held.
RECURSIVE MergeByIdLastWins(_, _, _)
MergeByIdLastWins(comb, seen, es) ==
    IF es = <<>> THEN [combined |-> comb, seen_ids |-> seen]
    ELSE LET event == Head(es)
         IN  IF event.id \notin seen
             THEN MergeByIdLastWins(Append(comb, event), seen \cup {event.id}, Tail(es))
             ELSE MergeByIdLastWins(
                    [i \in DOMAIN comb |-> IF comb[i].id = event.id THEN event ELSE comb[i]],
                    seen, Tail(es))

\* Lines 842-850: the listing's events merged into the venue's, first id wins.
RECURSIVE MergeById(_, _, _)
MergeById(comb, seen, es) ==
    IF es = <<>> THEN [combined |-> comb, seen_ids |-> seen]
    ELSE LET event == Head(es)
         IN  IF event.id # <<>> /\ event.id \notin seen
             THEN MergeById(Append(comb, event), seen \cup {event.id}, Tail(es))
             ELSE MergeById(comb, seen, Tail(es))

(* ------------------------ the whole scrape, Spec ---------------------- *)

\* The scrapers scrape_all_sources runs, in order (the first two of five:
\* all go through _scrape_source_multi).
Venues == << "harlows", "cafe_colonial" >>

SCRAPE_WORKERS == 8

\* The listing URLs of a venue (the first of the 12 and of the 2 the code
\* lists).
ListingUrls(source) ==
    IF source = "harlows"
    THEN << "https://www.harlows.com/", "https://www.harlows.com/events/" >>
    ELSE << "https://cafecolonial916.com/" >>

\* What _discover_event_links can return for a listing of a venue:
\* list(set), in any order.  Fragments and trailing slashes are cut off,
\* query strings are not.
Discoverable(source) ==
    IF source = "harlows"
    THEN { <<>>,
           << Url(1, FALSE, TRUE, FALSE) >>,
           << Url(1, FALSE, FALSE, FALSE), Url(1, FALSE, TRUE, FALSE),
              Url(2, FALSE, FALSE, FALSE) >> }
    ELSE { <<>>, << Url(3, FALSE, FALSE, FALSE) >> }

\* A band's page with structured data and no date anywhere.
PageUndated ==
    MakePage(Ld(<<"Band">>, NullUrl, NoStartDate), <<>>, PlainText,
             << [NoOffer EXCEPT !.price = StrPrice(<<10, 15>>), !.lowPrice = NumPrice(5)] >>,
             <<>>, NoTickets, FALSE)

\* The same page once its text spells the date.
PageTextDated ==
    [PageUndated EXCEPT !.textDate = MaxDate,
                        !.textTime = [h |-> 7, m |-> 30, mer |-> "pm"]]

\* A page without structured data, with a ticket link.
PageFreeText ==
    MakePage(NoLd, << <<"Shows">>, <<"Events", Space, Dash, Space, "Opener", Space, Bar, Space, "Shows">> >>,
             PlainText, <<>>, <<>>, OneTicket, FALSE)

\* What the network may serve at a detail link while the scrape runs.
AggPages == { DeadPage, RaisingPage, PageUndated, PageTextDated, PageFreeText }

\* The entries an operator may have written into manual_events.json.
ManualItems ==
    { ManualItem(<<"Band">>, "harlows", Url(1, TRUE, FALSE, TRUE), 1, Hhmm(21, 0),
                 <<>>, 20, 10),
      ManualItem(<<"Shows">>, "", NullUrl, Empty, Empty, <<>>, Null, Null),
      ManualItem(<<"Opener">>, "", NullUrl, Sentinel, Null, CustomId, 0, 0),
      ManualItem(<<"Opener">>, "", Url(4, FALSE, TRUE, FALSE), FreeFormDate, Null,
                 <<>>, 15, Null),
      ManualItem(<<Dash, Space>>, "", NullUrl, Null, Null, <<>>, Null, Null),
      [ManualItem(<<>>, "", NullUrl, Null, Null, <<>>, Null, Null) EXCEPT !.isDict = FALSE],
      [ManualItem(<<>>, "", NullUrl, Null, Null, <<>>, Null, Null) EXCEPT !.nameIsStr = FALSE] }

RECURSIVE SeqsUpTo(_, _)
SeqsUpTo(S, n) ==
    IF n = 0 THEN { <<>> }
    ELSE LET shorter == SeqsUpTo(S, n - 1)
         IN  shorter \cup { Append(q, x) : q \in shorter, x \in S }

\* The manual events file: absent, not JSON, JSON but no list, or a list.
ManualFiles ==
    { [kind |-> k, items |-> <<>>] : k \in {"missing", "garbage", "notlist"} }
    \cup { [kind |-> "list", items |-> q] : q \in SeqsUpTo(ManualItems, MaxManual) }

Init ==
    /\ rs = IdleRs
    /\ pc = "enter"
    /\ vi = 0
    /\ li = 0
    /\ links = <<>>
    /\ futs = <<>>
    /\ doneQ = <<>>
    /\ events = <<>>
    /\ venueIn = <<>>
    /\ combined = <<>>
    /\ seen_ids = {}
    /\ allEvents = <<>>
    /\ result = <<>>
    /\ world = NoWorld
    /\ txt = NoText
    /\ cacheFile = NoCacheFile
    /\ clock = 0
    /\ req = IdleReq

\* Lines 971-978 and 842-843: the next scraper is called and
\* _scrape_source_multi starts on its listings.
EnterVenue ==
    /\ pc = "enter"
    /\ vi < Len(Venues)
    /\ vi' = vi + 1
    /\ li' = 1
    /\ combined' = <<>>
    /\ seen_ids' = {}
    /\ venueIn' = <<>>
    /\ pc' = "discover"
    /\ UNCHANGED <<world, textVars, appVars, rs, links, futs, doneQ, events, allEvents, result>>

\* Lines 824-830: the links of the listing are discovered, capped and
\* submitted; the pool starts the first SCRAPE_WORKERS of them.
Discover ==
    /\ pc = "discover"
    /\ \/ /\ \E found \in Discoverable(Venues[vi]) :
                /\ links' = SubSeq(found, 1, Min(Len(found), MAX_LINKS_PER_SOURCE))
                /\ futs' = [i \in DOMAIN links' |->
                              IF i <= SCRAPE_WORKERS THEN "running" ELSE "queued"]
          /\ doneQ' = <<>>
          /\ events' = <<>>
          /\ pc' = "pool"
       \/ \* Lines 651, 660, 666 and 673: urljoin, under no try, rejects a
          \* URL-like string of the listing's markup ("https://[..."); the
          \* ValueError leaves _scrape_source and scrape_all_sources.
          /\ pc' = "listing_raised"
          /\ UNCHANGED <<links, futs, doneQ, events>>
    /\ UNCHANGED <<world, textVars, appVars, rs, vi, li, venueIn, combined, seen_ids, allEvents, result>>

\* The first queued future, or 0.
NextQueued(fs) ==
    IF \E i \in DOMAIN fs : fs[i] = "queued"
    THEN CHOOSE i \in DOMAIN fs : fs[i] = "queued" /\ \A j \in 1..(i - 1) : fs[j] # "queued"
    ELSE 0

\* A worker finishes _scrape_event_page on the page the network served it,
\* and takes the next queued link.
WorkerFinish(i) ==
    /\ pc = "pool"
    /\ futs[i] = "running"
    /\ \E page \in AggPages :
         LET r == scrape_event_page(links[i], Venues[vi], page)
         IN  doneQ' = Append(doneQ, [out |-> r.out, event |-> r.event])
    /\ LET fin == [futs EXCEPT ![i] = "finished"]
           q == NextQueued(fin)
       IN  futs' = IF q = 0 THEN fin ELSE [fin EXCEPT ![q] = "running"]
    /\ UNCHANGED <<world, textVars, appVars, rs, pc, vi, li, links, events, venueIn, combined, seen_ids, allEvents, result>>

\* Lines 831-837: as_completed hands over the next finished future.
Collect ==
    /\ pc = "pool"
    /\ doneQ # <<>>
    /\ events' = IF Head(doneQ).out = "event" THEN Append(events, Head(doneQ).event)
                 ELSE events
    /\ doneQ' = Tail(doneQ)
    /\ UNCHANGED <<world, textVars, appVars, rs, pc, vi, li, links, futs, venueIn, combined, seen_ids, allEvents, result>>

\* An orchestrator that returns as soon as nothing waits to be collected,
\* whether or not its futures have finished.
MergeListingEarly ==
    /\ pc = "pool"
    /\ doneQ = <<>>
    /\ LET merged == MergeById(combined, seen_ids, events)
       IN  /\ combined' = merged.combined
           /\ seen_ids' = merged.seen_ids
           /\ venueIn' = venueIn \o events
           /\ IF li < Len(ListingUrls(Venues[vi]))
              THEN /\ li' = li + 1
                   /\ pc' = "discover"
                   /\ UNCHANGED allEvents
              ELSE /\ allEvents' = allEvents \o merged.combined
                   /\ pc' = "enter"
                   /\ UNCHANGED li
    /\ UNCHANGED <<world, textVars, appVars, rs, vi, links, futs, doneQ, events, result>>

\* Lines 838 and 845-850: the pool is drained, _scrape_source returns and its
\* events are merged; after the last listing the venue's events join the
\* aggregate (line 978).
MergeListing ==
    /\ pc = "pool"
    /\ \A i \in DOMAIN futs : futs[i] = "finished"
    /\ doneQ = <<>>
    /\ LET merged == MergeById(combined, seen_ids, events)
       IN  /\ combined' = merged.combined
           /\ seen_ids' = merged.seen_ids
           /\ venueIn' = venueIn \o events
           /\ IF li < Len(ListingUrls(Venues[vi]))
              THEN /\ li' = li + 1
                   /\ pc' = "discover"
                   /\ UNCHANGED allEvents
              ELSE /\ allEvents' = allEvents \o merged.combined
                   /\ pc' = "enter"
                   /\ UNCHANGED li
    /\ UNCHANGED <<world, textVars, appVars, rs, vi, links, futs, doneQ, events, result>>

\* Line 979: the manual events are loaded and appended.
LoadManual ==
    /\ pc = "enter"
    /\ vi = Len(Venues)
    /\ \E file \in ManualFiles :
         LET loaded == load_manual_events(file)
         IN  IF loaded.raised
             THEN /\ pc' = "raised"
                  /\ UNCHANGED allEvents
             ELSE /\ pc' = "dedup"
                  /\ allEvents' = allEvents \o loaded.events
    /\ UNCHANGED <<world, textVars, appVars, rs, vi, li, links, futs, doneQ, events, venueIn, combined, seen_ids, result>>

\* Lines 981-989: deduplicate, sort, return.
Aggregate ==
    /\ pc = "dedup"
    /\ result' = SortedByDate(UniqueByKey(allEvents))
    /\ pc' = "done"
    /\ UNCHANGED <<world, textVars, appVars, rs, vi, li, links, futs, doneQ, events, venueIn, combined, seen_ids, allEvents>>

Next ==
    \/ EnterVenue
    \/ Discover
    \/ \E i \in DOMAIN futs : WorkerFinish(i)
    \/ Collect
    \/ MergeListing
    \/ LoadManual
    \/ Aggregate

Spec == Init /\ [][Next]_vars

(* ---------------- the scrape over a fixed network, SpecFixed ---------- *)

\* The detail links of the model's listings.
DetailLinks ==
    { Url(1, FALSE, FALSE, FALSE), Url(1, FALSE, TRUE, FALSE),
      Url(2, FALSE, FALSE, FALSE), Url(3, FALSE, FALSE, FALSE) }

\* Every listing URL of the model's venues.
AllListings ==
    UNION { { ListingUrls(Venues[v])[l] : l \in DOMAIN ListingUrls(Venues[v]) } :
            v \in DOMAIN Venues }

\* The venue a listing URL belongs to.
VenueOf(listing_url) ==
    CHOOSE v \in DOMAIN Venues :
      \E l \in DOMAIN ListingUrls(Venues[v]) : ListingUrls(Venues[v])[l] = listing_url

\* The manual files of a fixed network: none, or one entry for a show at
\* Harlow's.
FixedManualFiles ==
    { f \in ManualFiles :
        \/ f.kind = "missing"
        \/ /\ f.kind = "list"
           /\ Len(f.items) = 1
           /\ f.items[1].isDict
           /\ f.items[1].source = "harlows" }

\* A fixed mapping from URL to content: what _fetch serves at each detail
\* link, what _discover_event_links returns for each listing (in the order
\* list(links) gave it), the listings whose markup holds a string urljoin
\* rejects (at most one), and the manual events file.
Worlds ==
    { [pages |-> pg, found |-> fd, malformed |-> bad, manual |-> m] :
        bad \in { b \in SUBSET AllListings : Cardinality(b) <= 1 },
        pg \in { f \in [DetailLinks -> AggPages] :
                   /\ f[Url(2, FALSE, FALSE, FALSE)] = PageFreeText
                   /\ f[Url(3, FALSE, FALSE, FALSE)] \in {PageFreeText, DeadPage} },
        fd \in { f \in [AllListings -> UNION { Discoverable(Venues[v]) : v \in DOMAIN Venues }] :
                   \A u \in AllListings : f[u] \in Discoverable(Venues[VenueOf(u)]) },
        m \in FixedManualFiles }

InitFixed ==
    /\ rs = IdleRs
    /\ pc = "enter"
    /\ vi = 0
    /\ li = 0
    /\ links = <<>>
    /\ futs = <<>>
    /\ doneQ = <<>>
    /\ events = <<>>
    /\ venueIn = <<>>
    /\ combined = <<>>
    /\ seen_ids = {}
    /\ allEvents = <<>>
    /\ result = <<>>
    /\ world \in Worlds
    /\ txt = NoText
    /\ cacheFile = NoCacheFile
    /\ clock = 0
    /\ req = IdleReq

\* Lines 824-830 over the fixed network.
DiscoverFixed ==
    /\ pc = "discover"
    /\ IF ListingUrls(Venues[vi])[li] \in world.malformed
       THEN /\ pc' = "listing_raised"
            /\ UNCHANGED <<links, futs, doneQ, events>>
       ELSE /\ LET found == world.found[ListingUrls(Venues[vi])[li]]
               IN  /\ links' = SubSeq(found, 1, Min(Len(found), MAX_LINKS_PER_SOURCE))
                   /\ futs' = [i \in DOMAIN links' |->
                                 IF i <= SCRAPE_WORKERS THEN "running" ELSE "queued"]
            /\ doneQ' = <<>>
            /\ events' = <<>>
            /\ pc' = "pool"
    /\ UNCHANGED <<world, textVars, appVars, rs, vi, li, venueIn, combined, seen_ids, allEvents, result>>

\* A worker finishes _scrape_event_page on the content the fixed network
\* holds at its link, and takes the next queued link.
WorkerFinishFixed(i) ==
    /\ pc = "pool"
    /\ futs[i] = "running"
    /\ LET r == scrape_event_page(links[i], Venues[vi], world.pages[links[i]])
       IN  doneQ' = Append(doneQ, [out |-> r.out, event |-> r.event])
    /\ LET fin == [futs EXCEPT ![i] = "finished"]
           q == NextQueued(fin)
       IN  futs' = IF q = 0 THEN fin ELSE [fin EXCEPT ![q] = "running"]
    /\ UNCHANGED <<world, textVars, appVars, rs, pc, vi, li, links, events, venueIn, combined, seen_ids, allEvents, result>>

\* Line 979 over the fixed manual events file.
LoadManualFixed ==
    /\ pc = "enter"
    /\ vi = Len(Venues)
    /\ LET loaded == load_manual_events(world.manual)
       IN  IF loaded.raised
           THEN /\ pc' = "raised"
                /\ UNCHANGED allEvents
           ELSE /\ pc' = "dedup"
                /\ allEvents' = allEvents \o loaded.events
    /\ UNCHANGED <<world, textVars, appVars, rs, vi, li, links, futs, doneQ, events, venueIn, combined, seen_ids, result>>

NextFixed ==
    \/ EnterVenue
    \/ DiscoverFixed
    \/ \E i \in DOMAIN futs : WorkerFinishFixed(i)
    \/ Collect
    \/ MergeListing
    \/ LoadManualFixed
    \/ Aggregate

SpecFixed == InitFixed /\ [][NextFixed]_vars

(* ------------------------ the HTTP layer, SpecApp --------------------- *)

\* CACHE_TTL_SECONDS, which is six hours in the code, in ticks of the
\* model's clock.
CACHE_TTL_SECONDS == 2

\* The ticks the clock runs on after the server starts.
MaxElapsed == 3

\* time.time() when the server starts: far enough from the epoch that a
\* payload fetched at 0 is stale.
StartClock == CACHE_TTL_SECONDS

\* What scrape_all_sources hands to get_shows: the runs on which every
\* listing is empty and manual_events.json holds at most one entry.  A run
\* returns its list or raises.
ScrapeOutcomes ==
    { LET loaded == load_manual_events(f)
      IN  [ raised |-> loaded.raised,
            events |-> IF loaded.raised THEN <<>>
                       ELSE SortedByDate(UniqueByKey(loaded.events)) ] :
        f \in { g \in ManualFiles : Len(g.items) <= 1 } }

\* cache.json as _save_cache writes it.
JsonCache(fetched_at, evs) == [kind |-> "json", fetched_at |-> fetched_at, events |-> evs]

\* cache.json holding what json.loads rejects.
GarbageCache == [kind |-> "garbage", fetched_at |-> 0, events |-> <<>>]

\* _load_cache: the payload of the file, or the default payload when the
\* file is missing or unreadable.
load_cache(file) ==
    IF file.kind = "json" THEN [fetched_at |-> file.fetched_at, events |-> file.events]
    ELSE [fetched_at |-> 0, events |-> <<>>]

\* _cache_is_fresh
cache_is_fresh(payload, now) == (now - payload.fetched_at) < CACHE_TTL_SECONDS

InitApp ==
    /\ rs = IdleRs
    /\ pc = "off"
    /\ vi = 0
    /\ li = 0
    /\ links = <<>>
    /\ futs = <<>>
    /\ doneQ = <<>>
    /\ events = <<>>
    /\ venueIn = <<>>
    /\ combined = <<>>
    /\ seen_ids = {}
    /\ allEvents = <<>>
    /\ result = <<>>
    /\ world = NoWorld
    /\ txt = NoText
    /\ cacheFile \in {NoCacheFile, GarbageCache}
    /\ clock = StartClock
    /\ req = IdleReq

\* Line 46: a request arrives and the cache is loaded.
Receive ==
    /\ req.pc = "idle"
    /\ \E refresh \in {0, 1} :
         req' = [IdleReq EXCEPT !.pc = "decide", !.refresh = refresh,
                                !.before = cacheFile, !.cache = load_cache(cacheFile)]
    /\ UNCHANGED <<cacheFile, clock, aggVarsOfApp>>

\* Lines 47 and 55: a fresh cache is answered from, unless a refresh is asked.
Decide ==
    /\ req.pc = "decide"
    /\ IF req.refresh = 1 \/ ~cache_is_fresh(req.cache, clock)
       THEN req' = [req EXCEPT !.pc = "scrape", !.attempted = TRUE]
       ELSE req' = [req EXCEPT !.pc = "done",
                               !.response = [events |-> req.cache.events, error |-> NoError]]
    /\ UNCHANGED <<cacheFile, clock, aggVarsOfApp>>

\* Lines 48-49 and 52-53 with the cache dropped on failure: the response
\* carries no events.
ScrapeDropsCache ==
    /\ req.pc = "scrape"
    /\ \E o \in ScrapeOutcomes :
         IF o.raised
         THEN req' = [req EXCEPT !.pc = "done", !.raised = TRUE,
                                 !.response = [events |-> <<>>, error |-> ErrorOf("exc")]]
         ELSE req' = [req EXCEPT !.pc = "save", !.scraped = o.events]
    /\ UNCHANGED <<cacheFile, clock, aggVarsOfApp>>

\* Lines 48-49 and 52-53: scrape_all_sources runs; when it raises, the
\* response is the loaded cache and str(exc).
Scrape ==
    /\ req.pc = "scrape"
    /\ \E o \in ScrapeOutcomes :
         IF o.raised
         THEN req' = [req EXCEPT !.pc = "done", !.raised = TRUE,
                                 !.response = [events |-> req.cache.events,
                                               error |-> ErrorOf("exc")]]
         ELSE req' = [req EXCEPT !.pc = "save", !.scraped = o.events]
    /\ UNCHANGED <<cacheFile, clock, aggVarsOfApp>>

\* Lines 50 and 34-36: _save_cache
Save ==
    /\ req.pc = "save"
    /\ cacheFile' = JsonCache(clock, req.scraped)
    /\ req' = [req EXCEPT !.pc = "reload"]
    /\ UNCHANGED <<clock, aggVarsOfApp>>

\* Lines 51 and 55: the cache is loaded again and answered from.
Reload ==
    /\ req.pc = "reload"
    /\ LET cache == load_cache(cacheFile)
       IN  req' = [req EXCEPT !.pc = "done", !.cache = cache,
                              !.response = [events |-> cache.events, error |-> NoError]]
    /\ UNCHANGED <<cacheFile, clock, aggVarsOfApp>>

\* The response is sent.
Respond ==
    /\ req.pc = "done"
    /\ req' = IdleReq
    /\ UNCHANGED <<cacheFile, clock, aggVarsOfApp>>

\* time.time() moves on.
Tick ==
    /\ clock < StartClock + MaxElapsed
    /\ clock' = clock + 1
    /\ UNCHANGED <<cacheFile, req, aggVarsOfApp>>

NextApp ==
    \/ Receive
    \/ Decide
    \/ Scrape
    \/ Save
    \/ Reload
    \/ Respond
    \/ Tick

SpecApp == InitApp /\ [][NextApp]_vars

(* -------------------- the text functions, SpecText -------------------- *)

\* The longest title, in tokens.
MaxTitleLen == 4

\* What a title is made of.
TitleTokens == { Space, Dash, Bar, "Band", "Events", "Shows" }

Titles == SeqsUpTo(TitleTokens, MaxTitleLen)

\* What \d{1,2} and \d{2} match.
TwoDigits == 0..99

\* Every match of (\d{1,2})(?::(\d{2}))?\s*([ap]m); a match without minutes
\* reads as minute 0 (line 552).
TimeMatches == { [h |-> h, m |-> m, mer |-> mer] :
                   h \in TwoDigits, m \in TwoDigits, mer \in {"am", "pm"} }

InitText ==
    /\ rs = IdleRs
    /\ pc = "off"
    /\ vi = 0
    /\ li = 0
    /\ links = <<>>
    /\ futs = <<>>
    /\ doneQ = <<>>
    /\ events = <<>>
    /\ venueIn = <<>>
    /\ combined = <<>>
    /\ seen_ids = {}
    /\ allEvents = <<>>
    /\ result = <<>>
    /\ world = NoWorld
    /\ txt \in { [NoText EXCEPT !.fn = "clean", !.input = t, !.pc = "start"] : t \in Titles }
               \cup
               { [NoText EXCEPT !.fn = "time", !.input = tm, !.pc = "start"] :
                   tm \in TimeMatches \cup {NoTextTime} }
    /\ cacheFile = NoCacheFile
    /\ clock = 0
    /\ req = IdleReq

\* Everything but the text.
aggVarsOfText == <<rs, pc, vi, li, links, futs, doneQ, events, venueIn, combined, seen_ids, allEvents, result,
                  world, appVars>>

\* _clean_event_name(x)
CleanOnce ==
    /\ txt.fn = "clean"
    /\ txt.pc = "start"
    /\ txt' = [txt EXCEPT !.out = clean_event_name(txt.input), !.pc = "once"]
    /\ UNCHANGED aggVarsOfText

\* _clean_event_name of the result
CleanAgain ==
    /\ txt.fn = "clean"
    /\ txt.pc = "once"
    /\ txt' = [txt EXCEPT !.again = clean_event_name(txt.out), !.pc = "twice"]
    /\ UNCHANGED aggVarsOfText

\* Lines 549-558 on a text with the time match txt.input
ExtractTime ==
    /\ txt.fn = "time"
    /\ txt.pc = "start"
    /\ txt' = [txt EXCEPT !.out = TimeFromText(txt.input), !.pc = "done"]
    /\ UNCHANGED aggVarsOfText

NextText ==
    \/ CleanOnce
    \/ CleanAgain
    \/ ExtractTime

SpecText == InitText /\ [][NextText]_vars

(* ------------------------------ the claims ---------------------------- *)

\* The resolver has returned an event.
Resolved == rs.pc = "done" /\ rs.out = "event"

Precedes(i, j) == i < j

\* C1: in the list scrape_all_sources returns no two events share a dedup
\* key, every key of the concatenated input is present, and the event kept
\* for a key is the last event of the input with that key.
C1_DedupLastWins ==
    pc = "done" =>
      /\ \A i, j \in DOMAIN result :
           i # j => DedupKey(result[i]) # DedupKey(result[j])
      /\ \A k \in DOMAIN allEvents :
           \E i \in DOMAIN result : DedupKey(result[i]) = DedupKey(allEvents[k])
      /\ \A i \in DOMAIN result :
           \E k \in DOMAIN allEvents :
             /\ allEvents[k] = result[i]
             /\ \A m \in DOMAIN allEvents :
                  Precedes(k, m) => DedupKey(allEvents[m]) # DedupKey(result[i])

\* C1's case: the scrape has returned, and its input held two different
\* events with one key, one keyed by URL (a venue's event and a manual one).
C1_Witness ==
    /\ pc = "done"
    /\ \E k, m \in DOMAIN allEvents :
         /\ Precedes(k, m)
         /\ DedupKey(allEvents[k]) = DedupKey(allEvents[m])
         /\ DedupKey(allEvents[k]).by = "url"
         /\ allEvents[k] # allEvents[m]
         /\ \E i \in DOMAIN result : result[i] = allEvents[m]

HasDate(e) == e.localDate \notin {Null, Empty}

\* C2: the list scrape_all_sources returns is ascending in localDate, and
\* every event without a localDate comes after every event that has one.
C2_SortedDatelessLast ==
    pc = "done" =>
      /\ \A i, j \in DOMAIN result :
           Precedes(i, j) /\ HasDate(result[i]) /\ HasDate(result[j])
             => result[i].localDate <= result[j].localDate
      /\ \A i, j \in DOMAIN result :
           HasDate(result[i]) /\ ~HasDate(result[j]) => Precedes(i, j)

\* C3: the id of an event the resolver returns is the id of its own final
\* source, url, name and localDate.
C3_IdMatchesFields ==
    Resolved =>
      rs.event.id = build_id(rs.event.source, rs.event.url, rs.event.name,
                            rs.event.localDate)

\* C4: for every event of the pipeline's output, dateTBA is true exactly when
\* localDate is null and timeTBA exactly when localTime is null.
C4_TbaMirrorsNull ==
    \A i \in DOMAIN result :
      /\ result[i].dateTBA = (result[i].localDate = Null)
      /\ result[i].timeTBA = (result[i].localTime = Null)

\* C5: for every event scrape_all_sources returns with both prices present,
\* priceMin <= priceMax.
C5_PriceOrdered ==
    \A i \in DOMAIN result :
      result[i].priceMin # Null /\ result[i].priceMax # Null
        => result[i].priceMin <= result[i].priceMax

InUnitRange(p) == p = Null \/ (0 <= p /\ p <= 1000)

\* C6: priceMin and priceMax of an event the resolver returns are each null
\* or within [0, 1000].
C6_PriceInRange ==
    Resolved => InUnitRange(rs.event.priceMin) /\ InUnitRange(rs.event.priceMax)

\* C7: every event scrape_all_sources returns has a non-empty name that is
\* not a generic title.
C7_NamesNotGeneric ==
    \A i \in DOMAIN result :
      result[i].name # <<>> /\ ~is_generic_title(result[i].name)

\* C8: an event the resolver returns for a page without free-admission
\* language does not have priceMin = 0 and priceMax = 0.
C8_NoZeroPriceUnlessFree ==
    Resolved /\ ~looks_free(rs.page)
      => ~(rs.event.priceMin = 0 /\ rs.event.priceMax = 0)

\* C8's case: the first offer's price was 0, no tier found another price, the
\* page has no free-admission language, and the price came back null.
C8_Witness ==
    /\ Resolved
    /\ ~looks_free(rs.page)
    /\ rs.page.ld.present
    /\ rs.page.offers = << Offer(NumPrice(0)) >>
    /\ rs.needsPrice
    /\ rs.event.priceMin = Null
    /\ rs.event.priceMax = Null

\* C9: a non-null url of an event the resolver returns is canonical, also
\* after a ticket link has replaced it.
C9_UrlCanonical ==
    Resolved /\ rs.event.url # NullUrl => canonicalize_url(rs.event.url) = rs.event.url

\* C10: the venue's merged list holds no id twice, holds every id its
\* listings yielded, and for each id holds the first event with that id in
\* listing order.
C10_MergeFirstWins ==
    /\ \A i, j \in DOMAIN combined : i # j => combined[i].id # combined[j].id
    /\ \A k \in DOMAIN venueIn :
         \E i \in DOMAIN combined : combined[i].id = venueIn[k].id
    /\ \A i \in DOMAIN combined :
         \E k \in DOMAIN venueIn :
           /\ venueIn[k] = combined[i]
           /\ \A m \in DOMAIN venueIn :
                Precedes(m, k) => venueIn[m].id # combined[i].id

\* C10's case: _scrape_source_multi has returned for a venue whose listings
\* yielded two different events with one id.
C10_Witness ==
    /\ pc = "enter"
    /\ vi >= 1
    /\ \E k, m \in DOMAIN venueIn :
         /\ Precedes(k, m)
         /\ venueIn[k].id = venueIn[m].id
         /\ venueIn[k] # venueIn[m]
         /\ \E i \in DOMAIN combined : combined[i] = venueIn[k]

\* What one listing yields when its futures complete in submission order.
ListingInOrder(w, source, listing_url) ==
    LET found == w.found[listing_url]
        ls == SubSeq(found, 1, Min(Len(found), MAX_LINKS_PER_SOURCE))
        rq == [i \in DOMAIN ls |-> scrape_event_page(ls[i], source, w.pages[ls[i]])]
        IsEvent(r) == r.out = "event"
        kept == SelectSeq(rq, IsEvent)
    IN  [i \in DOMAIN kept |-> kept[i].event]

\* What a venue yields then: its listings merged in order.
RECURSIVE VenueInOrder(_, _, _, _, _)
VenueInOrder(w, source, l, comb, seen) ==
    IF l > Len(ListingUrls(source)) THEN comb
    ELSE LET merged == MergeById(comb, seen,
                                 ListingInOrder(w, source, ListingUrls(source)[l]))
         IN  VenueInOrder(w, source, l + 1, merged.combined, merged.seen_ids)

RECURSIVE VenuesInOrder(_, _)
VenuesInOrder(w, v) ==
    IF v > Len(Venues) THEN <<>>
    ELSE VenueInOrder(w, Venues[v], 1, <<>>, {}) \o VenuesInOrder(w, v + 1)

\* The list scrape_all_sources returns over the network w on the run whose
\* futures complete in submission order.
ResultInOrder(w) ==
    SortedByDate(UniqueByKey(VenuesInOrder(w, 1) \o load_manual_events(w.manual).events))

\* C11: over a fixed network, every run of scrape_all_sources returns the
\* list that the run with in-order completion returns: the same events in
\* the same order, whatever the order the workers finish in.
C11_Deterministic ==
    pc = "done" => result = ResultInOrder(world)

\* C12: when get_shows has attempted a refresh and scrape_all_sources raised,
\* the response carries the events of the cache file as it was when the
\* request arrived and an error string, and the cache file is as it was.
C12_FallbackOnFailure ==
    req.pc = "done" /\ req.attempted /\ req.raised
      => /\ req.response.events = load_cache(req.before).events
         /\ ~req.response.error.null
         /\ cacheFile = req.before

\* C12's case: a refresh failed while the cache held events of an earlier
\* scrape.
C12_Witness ==
    /\ req.pc = "done"
    /\ req.attempted
    /\ req.raised
    /\ req.before.kind = "json"
    /\ req.before.events # <<>>

\* C13: loading the manual events never raises, whatever the file holds:
\* scrape_all_sources never stops on an error of _load_manual_events.
C13_ManualLoadNeverRaises ==
    pc # "raised"

\* C14: clean_event_name is idempotent: cleaning a cleaned title changes
\* nothing.
C14_CleanIdempotent ==
    txt.fn = "clean" /\ txt.pc = "twice" => txt.again = txt.out

\* The event as it is built, before any backfill.
Built(st) == StepBuild(StepFetch(InitRs(st.url, st.source, st.page))).event

\* The price is known: some tier has supplied it, or the first offer had.
PriceKnown(st) ==
    /\ st.pc \in {"price_text", "ticket_links", "hop1", "hop2", "zero"}
    /\ ~st.needsPrice

\* The tier that supplies the price is the first of (a), (b), (c) that finds
\* one, and tiers (a) and (b) fetch nothing.
FirstTierWins(st) ==
    LET e0 == Built(st)
        needs == e0.priceMin \in {Null, 0} /\ e0.priceMax \in {Null, 0}
        a == extract_prices_from_jsonld(st.page.offers)
        b == extract_ticket_prices_from_text(st.page)
    IN  /\ ~needs => Len(st.fetched) = 1 /\ st.event.priceMin = e0.priceMin
        /\ needs /\ a # <<>> =>
             Len(st.fetched) = 1 /\ st.event.priceMin = SeqMin(a)
        /\ needs /\ a = <<>> /\ b # <<>> =>
             Len(st.fetched) = 1 /\ st.event.priceMin = SeqMin(b)
        /\ needs /\ a = <<>> /\ b = <<>> /\ st.event.priceMin \notin {Null, 0} =>
             Len(st.fetched) > 1

\* C15: the price tiers are tried in the order (a) structured offers, (b)
\* ticket-window text, (c) ticket-link crawl, the first that finds a price
\* supplies it, and once the price is known no page is fetched, no link is
\* collected and the price is not set again.
C15_TiersInOrderStopAtFirst ==
    /\ [](Resolved => FirstTierWins(rs))
    /\ [][PriceKnown(rs) =>
            /\ rs'.fetched = rs.fetched
            /\ rs'.tlinks = rs.tlinks
            /\ rs.pc # "zero" => rs'.event = rs.event]_vars

\* C15's case: the crawl found the price on a nested page and stopped with
\* ticket links left unvisited.
C15_Witness ==
    /\ Resolved
    /\ ~rs.needsPrice
    /\ rs.depth # <<>>
    /\ rs.depth[Len(rs.depth)] = 2
    /\ rs.ti < Len(rs.tlinks)
    /\ rs.event.priceMin # Null

\* The longest run of nested fetches in a depth log.
RECURSIVE LongestNestedRun(_, _, _)
LongestNestedRun(d, run, best) ==
    IF d = <<>> THEN Max(run, best)
    ELSE IF Head(d) = 2 THEN LongestNestedRun(Tail(d), run + 1, best)
    ELSE LongestNestedRun(Tail(d), 0, Max(run, best))

\* The fetches of one resolution stay within 5 first-hop pages, 3 nested
\* pages under each, 2 hops, and 21 in all.
CrawlBounded ==
    /\ \A i \in DOMAIN rs.depth : rs.depth[i] <= 2
    /\ Cardinality({ i \in DOMAIN rs.depth : rs.depth[i] = 1 }) <= 5
    /\ LongestNestedRun(rs.depth, 0, 0) <= 3
    /\ Len(rs.fetched) <= 1 + 5 + 15

\* The labels _scrape_event_page passes through; at each but "done" a step
\* is possible.
ResolverLabels ==
    { "fetch", "build", "rescue", "image", "datetime", "price_jsonld", "price_text",
      "ticket_links", "hop1", "hop2", "zero", "done" }

\* The steps a resolution has left at most: 0 once it has returned.
StepsLeft(st) ==
    LET first == Min(Len(st.tlinks), 5)
        under == Min(Len(st.nested), 3)
    IN  CASE st.pc = "done" -> 0
          [] st.pc = "zero" -> 1
          [] st.pc = "hop1" -> 2 + 5 * (first + 1 - st.ti)
          [] st.pc = "hop2" -> 2 + 5 * (first - st.ti) + (under + 1 - st.ni) + 1
          [] st.pc = "ticket_links" -> 40
          [] st.pc = "price_text" -> 41
          [] st.pc = "price_jsonld" -> 42
          [] st.pc = "datetime" -> 43
          [] st.pc = "image" -> 44
          [] st.pc = "rescue" -> 45
          [] st.pc = "build" -> 46
          [] OTHER -> 47

\* C16: the ticket-link crawl of one resolution fetches at most 5 first-hop
\* pages, at most 3 nested pages under each, nothing further than 2 hops
\* away, at most 21 pages in all, and the resolution terminates: it is never
\* stuck before its return, and every step brings the return nearer.
C16_CrawlBoundedTerminates ==
    /\ [](CrawlBounded /\ rs.pc \in ResolverLabels /\ StepsLeft(rs) >= 0)
    /\ [][StepsLeft(rs') < StepsLeft(rs)]_vars

\* C16's case: a resolution that fetched all 21 pages.
C16_Witness ==
    /\ Resolved
    /\ Len(rs.fetched) = 21
    /\ Cardinality({ i \in DOMAIN rs.depth : rs.depth[i] = 2 }) = 15


\* C17: when the detail page has at least one ticket-purchase link, the url
\* of the returned event is the highest-ranked ticket link, whether or not a
\* price was found and whichever tier supplied it.
C17_UrlIsTopTicketLink ==
    Resolved /\ TicketLinksOf(rs.page) # <<>>
        => rs.event.url = UrlJoin(rs.url, TicketLinksOf(rs.page)[1])


\* The pool of the current listing is drained: every future has finished and
\* the collection loop has taken every result.
Drained ==
    /\ pc = "pool"
    /\ \A i \in DOMAIN futs : futs[i] = "finished"
    /\ doneQ = <<>>

\* The links _scrape_source submits for the current listing: the first
\* MAX_LINKS_PER_SOURCE of those discovered.
Submitted ==
    LET found == world.found[ListingUrls(Venues[vi])[li]]
    IN  SubSeq(found, 1, Min(Len(found), MAX_LINKS_PER_SOURCE))

\* What resolving the i-th submitted link gives over the fixed network.
ResultOf(i) == scrape_event_page(Submitted[i], Venues[vi], world.pages[Submitted[i]])

\* How many of the submitted links resolve to the event e.
Resolving(e) ==
    Cardinality({ i \in DOMAIN Submitted : ResultOf(i).out = "event" /\ ResultOf(i).event = e })

Occurrences(seq, e) == Cardinality({ i \in DOMAIN seq : seq[i] = e })

\* The pool's part of C18: the events collected from a drained pool are the
\* non-null results of the submitted links, each as often as it was
\* resolved, in whatever order the workers finished.
ExactlyTheNonNullResults ==
    Drained =>
        /\ \A i \in DOMAIN events : Resolving(events[i]) = Occurrences(events, events[i])
        /\ \A i \in DOMAIN Submitted :
              ResultOf(i).out = "event"
                  => Occurrences(events, ResultOf(i).event) = Resolving(ResultOf(i).event)
        /\ Len(events) = Cardinality({ i \in DOMAIN Submitted : ResultOf(i).out = "event" })

\* C18: once the pool of a listing is drained, the events _scrape_source has
\* collected are exactly the non-null results of resolving the submitted
\* links: a page that raised or returned null adds nothing and takes nothing
\* away, in whatever order the workers finished; and no exception leaves
\* _scrape_source towards its caller.
C18_ExactAndNothingRaised ==
    /\ ExactlyTheNonNullResults
    /\ pc # "listing_raised"


\* The steps the pool of the current listing has left at most before
\* _scrape_source returns: every unfinished future finishes and is collected.
PoolStepsLeft ==
    IF pc # "pool" THEN 0
    ELSE 1 + 2 * Cardinality({ i \in DOMAIN futs : futs[i] # "finished" }) + Len(doneQ)

\* The pool is not stuck: a future is running, a result waits to be
\* collected, or the pool is drained and _scrape_source returns.
PoolCanStep ==
    \/ \E i \in DOMAIN futs : futs[i] = "running"
    \/ doneQ # <<>>
    \/ Drained

\* C19: _scrape_source returns only after every page it submitted has
\* finished (with an event, with null or by raising) and has been collected:
\* no future is cancelled, queued or running when it returns; and it does
\* return, each page resolution terminating: while the pool is open a step is
\* always possible and every step brings the return nearer.
C19_PoolDrainsThenReturns ==
    /\ [][pc = "pool" /\ pc' # "pool"
            => /\ \A i \in DOMAIN futs : futs[i] = "finished" /\ futs'[i] = "finished"
               /\ doneQ = <<>>]_vars
    /\ [](\A i \in DOMAIN futs : futs[i] \in {"queued", "running", "finished"})
    /\ [](pc = "pool" => PoolCanStep)
    /\ [][pc = "pool" => PoolStepsLeft' < PoolStepsLeft]_vars

\* C19's case: _scrape_source has returned from a pool of two pages, of
\* which one raised or returned null.
C19_Witness ==
    /\ pc \in {"discover", "enter"}
    /\ Len(futs) = 2
    /\ \A i \in DOMAIN futs : futs[i] = "finished"
    /\ Len(events) = 1


\* C20: every non-null localTime _extract_datetime_from_text produces from a
\* match of H(:MM)? (am|pm) is a valid 24-hour time, its hour in 0..23 and
\* its minute in 0..59; 12am gives hour 0 and 12pm keeps hour 12.
C20_ValidLocalTime ==
    txt.fn = "time" /\ txt.pc = "done" /\ txt.out # Null
        => /\ (txt.out \div 100) \in 0..23
           /\ (txt.out % 100) \in 0..59
           /\ (txt.input.h = 12 /\ txt.input.mer = "am" => txt.out \div 100 = 0)
           /\ (txt.input.h = 12 /\ txt.input.mer = "pm" => txt.out \div 100 = 12)

====
